---- MODULE Spec2Model ----
(***************************************************************************)
(* Shapefile/GeoJSON to OpenDRIVE converter: the reader                    *)
(* (read_points_from_shapefile), the arc-length conversion                 *)
(* (calculate_geometry), the bounding box (calculate_bounding_box), the    *)
(* document writer (write_opendrive_file) and the three drivers (main,     *)
(* POST /convert, POST /upload_convert).                                   *)
(*                                                                         *)
(* Numbers: Python floats are modelled by integers.  math.sqrt is the      *)
(* integer square root, math.atan2 is an integer angle in degrees in       *)
(* (-180, 180], and the "%.16f" formatting renders an integer with sixteen *)
(* zero decimals.  Floating-point rounding is therefore not modelled.      *)
(***************************************************************************)
EXTENDS Integers, Sequences, FiniteSets, TLC

(***************************************************************************)
(* Bounds of the model.                                                    *)
(***************************************************************************)
\* calculate_geometry is applied to point lists of at most MaxPoints points
MaxPoints == 3
\* ... whose coordinates lie in 0..MaxCoord
MaxCoord == 2
\* the writer and the bounding box get at most MaxSegments segments
MaxSegments == 3
\* a source file holds at most MaxFeatures features
MaxFeatures == 2
\* ... and a LineString at most MaxVertices vertices
MaxVertices == 2

(***************************************************************************)
(* Helpers: Python built-ins used by the code.                             *)
(***************************************************************************)
SeqsUpTo(S, n) == UNION {[1..k -> S] : k \in 0..n}

Range(f) == {f[i] : i \in DOMAIN f}

Abs(v) == IF v < 0 THEN -v ELSE v

\* max(list) and min(list) of a non-empty list
Max(list) == CHOOSE m \in Range(list) : \A e \in Range(list) : m >= e

Min(list) == CHOOSE m \in Range(list) : \A e \in Range(list) : m <= e

\* math.sqrt, rounded down to the integer grid
Sqrt(n) == CHOOSE r \in 0..n : r * r <= n /\ n < (r + 1) * (r + 1)

\* first-octant angle of (ay, ax), 0 <= ay <= ax, ax > 0, in degrees
OctantDeg(ay, ax) == (45 * ay * ax + 16 * ay * (ax - ay)) \div (ax * ax)

\* math.atan2(dy, dx) in integer degrees, range (-180, 180]; atan2(0, 0) = 0
Atan2(dy, dx) ==
    IF dx = 0 /\ dy = 0 THEN 0
    ELSE LET ax == Abs(dx)
             ay == Abs(dy)
             base == IF ay <= ax THEN OctantDeg(ay, ax) ELSE 90 - OctantDeg(ax, ay)
         IN  IF dy >= 0
             THEN (IF dx >= 0 THEN base ELSE 180 - base)
             ELSE (IF dx >= 0 THEN 0 - base ELSE base - 180)

\* f"{v:.16f}"
Fmt16(v) == ToString(v) \o ".0000000000000000"

\* sum(...) over a list of numbers
RECURSIVE Sum(_)
Sum(list) == IF list = <<>> THEN 0 ELSE list[1] + Sum(Tail(list))

(***************************************************************************)
(* calculate_geometry(points)                                              *)
(***************************************************************************)
\* segment_length of the pair (p1, p2)
SegmentLength(p1, p2) ==
    LET dx == p2.x - p1.x
        dy == p2.y - p1.y
    IN  Sqrt(dx * dx + dy * dy)

\* hdg of the pair (p1, p2)
Heading(p1, p2) == Atan2(p2.y - p1.y, p2.x - p1.x)

\* current_s after i iterations of the loop
RECURSIVE CurrentS(_, _)
CurrentS(points, i) ==
    IF i = 0 THEN 0
    ELSE CurrentS(points, i - 1) + SegmentLength(points[i], points[i + 1])

\* PairRecord with current_s advanced before the record is appended
PairRecordLateS(points, i) ==
    [s |-> CurrentS(points, i),
     x |-> points[i].x,
     y |-> points[i].y,
     z |-> 0,
     hdg |-> Heading(points[i], points[i + 1]),
     length |-> SegmentLength(points[i], points[i + 1])]

\* the record appended by iteration i of the loop (1-based)
PairRecord(points, i) ==
    [s |-> CurrentS(points, i - 1),
     x |-> points[i].x,
     y |-> points[i].y,
     z |-> 0,
     hdg |-> Heading(points[i], points[i + 1]),
     length |-> SegmentLength(points[i], points[i + 1])]

\* TerminalRecord with the fallback heading taken always
TerminalRecordFallbackHdg(points, road_points) ==
    [s |-> CurrentS(points, Len(points) - 1),
     x |-> points[Len(points)].x,
     y |-> points[Len(points)].y,
     z |-> 0,
     hdg |-> 0,
     length |-> 0]

\* the record appended after the loop
TerminalRecord(points, road_points) ==
    [s |-> CurrentS(points, Len(points) - 1),
     x |-> points[Len(points)].x,
     y |-> points[Len(points)].y,
     z |-> 0,
     hdg |-> IF road_points # <<>> THEN road_points[Len(road_points)].hdg ELSE 0,
     length |-> 0]

calculate_geometry(points) ==
    IF Len(points) < 2 THEN <<>>
    ELSE LET loop == [i \in 1..(Len(points) - 1) |-> PairRecord(points, i)]
         IN  Append(loop, TerminalRecord(points, loop))

(***************************************************************************)
(* calculate_bounding_box(all_segments)                                    *)
(***************************************************************************)
\* [p for segment in all_segments for p in segment]
RECURSIVE AllPoints(_)
AllPoints(all_segments) ==
    IF all_segments = <<>> THEN <<>>
    ELSE Head(all_segments) \o AllPoints(Tail(all_segments))

\* calculate_bounding_box with the extremes started from 0
calculate_bounding_box_from_zero(all_segments) ==
    LET all_points == AllPoints(all_segments)
        xs == <<0>> \o [i \in DOMAIN all_points |-> all_points[i].x]
        ys == <<0>> \o [i \in DOMAIN all_points |-> all_points[i].y]
    IN  [north |-> Max(ys), south |-> Min(ys), east |-> Max(xs), west |-> Min(xs)]

calculate_bounding_box(all_segments) ==
    LET all_points == AllPoints(all_segments)
        xs == [i \in DOMAIN all_points |-> all_points[i].x]
        ys == [i \in DOMAIN all_points |-> all_points[i].y]
    IN  IF all_points = <<>>
        THEN [north |-> 0, south |-> 0, east |-> 0, west |-> 0]
        ELSE [north |-> Max(ys), south |-> Min(ys), east |-> Max(xs), west |-> Min(xs)]

(***************************************************************************)
(* write_opendrive_file: the document built before it is written           *)
(***************************************************************************)
\* Python's None
None == "None"

\* the fallback geoReference used when crs_wkt is empty
FallbackGeoRef == "+proj=latlong +datum=WGS84"

\* the <header> element
Header(bounds, crs_wkt) ==
    [revMajor |-> "1",
     revMinor |-> "4",
     name |-> "Generated Road",
     version |-> "1.00",
     date |-> "%Y-%m-%d",
     north |-> Fmt16(bounds.north),
     south |-> Fmt16(bounds.south),
     east |-> Fmt16(bounds.east),
     west |-> Fmt16(bounds.west),
     vendor |-> "RoadRunner",
     geoReference |-> IF crs_wkt # None /\ crs_wkt # "" THEN crs_wkt ELSE FallbackGeoRef]

\* the <geometry> element of one record of road_geometry
GeometryElement(p) ==
    [s |-> Fmt16(p.s),
     x |-> Fmt16(p.x),
     y |-> Fmt16(p.y),
     hdg |-> Fmt16(p.hdg),
     length |-> Fmt16(p.length),
     shape |-> "line"]

\* the <elevation> element of the transition into point i + 1 of the segment
ElevationElement(segment, i) ==
    [s |-> Fmt16(CurrentS(segment, i)), a |-> "0.0", b |-> "0.0", c |-> "0.0", d |-> "0.0"]

\* the fixed <lanes> element
Lanes ==
    [laneOffset |-> [s |-> "0.0", a |-> "0.0", b |-> "0.0", c |-> "0.0", d |-> "0.0"],
     left |-> [id |-> "1", type |-> "driving", level |-> "false"],
     center |-> [id |-> "0", type |-> "none", level |-> "false"],
     right |-> [id |-> "-1", type |-> "driving", level |-> "false"]]

\* the <road> element of the segment enumerated as idx
Road(idx, segment) ==
    LET road_geometry == calculate_geometry(segment)
        road_length == Sum([k \in DOMAIN road_geometry |-> road_geometry[k].length])
    IN  [name |-> "Road_" \o ToString(idx),
         length |-> Fmt16(road_length),
         id |-> ToString(idx),
         junction |-> "-1",
         planView |-> [k \in DOMAIN road_geometry |-> GeometryElement(road_geometry[k])],
         elevationProfile |->
             [i \in 1..(Len(segment) - 1) |-> ElevationElement(segment, i)],
         lanes |-> Lanes]

\* does the segment enumerated as idx get a road?
Qualifies(segment) == ~(Len(segment) < 2)

\* Roads with the roads numbered after the short segments have been dropped
RoadsRenumbered(all_points_segments, idx) ==
    LET qualifying == SelectSeq(all_points_segments, Qualifies)
    IN  [j \in DOMAIN qualifying |-> Road(j, qualifying[j])]

\* the <road> elements, in the order of the loop over enumerate(all_points_segments, 1)
RECURSIVE Roads(_, _)
Roads(all_points_segments, idx) ==
    IF idx > Len(all_points_segments) THEN <<>>
    ELSE IF Qualifies(all_points_segments[idx])
         THEN <<Road(idx, all_points_segments[idx])>> \o Roads(all_points_segments, idx + 1)
         ELSE Roads(all_points_segments, idx + 1)

\* the values calculate_geometry returned to the writer, one per road, in order
RECURSIVE RoadGeometries(_, _)
RoadGeometries(all_points_segments, idx) ==
    IF idx > Len(all_points_segments) THEN <<>>
    ELSE IF Qualifies(all_points_segments[idx])
         THEN <<calculate_geometry(all_points_segments[idx])>>
              \o RoadGeometries(all_points_segments, idx + 1)
         ELSE RoadGeometries(all_points_segments, idx + 1)

\* the document serialised into xml_str
Document(all_points_segments, bounds, crs_wkt) ==
    [header |-> Header(bounds, crs_wkt), roads |-> Roads(all_points_segments, 1)]

(***************************************************************************)
(* read_points_from_shapefile: the source file and the pure parts          *)
(***************************************************************************)
\* a local variable that has not been assigned yet
Unbound == "UNBOUND"

\* target_crs.to_wkt() of the fixed transverse-Mercator target
TargetWkt == "tmerc lat_0=1.52211268895686 lon_0=33.4567869401696 k=1 datum=WGS84 units=m"

\* source coordinates <<x, y, z>>: small, exactly 180 in magnitude, above 180
VertexSmall == <<10, 20, 5>>

VertexEdge == <<-180, 0, 7>>

VertexLarge == <<181, 40, 0>>

\* the vertices LineStrings are drawn from, and those of Point features
LineVertices == {VertexSmall, VertexEdge}

PointVertices == {VertexSmall, VertexEdge, VertexLarge}

\* feature["geometry"] = None (a feature without geometry), as a record whose
\* type is None so that every geometry of the model is a record
NullGeometry == [type |-> None, coordinates |-> <<>>]

\* feature["geometry"]: a LineString, a Point, an unsupported type, or None.
\* The coordinates of a Point are kept as the one-element list of its coordinate.
Geometries ==
    {[type |-> "LineString", coordinates |-> cs] : cs \in SeqsUpTo(LineVertices, MaxVertices)}
    \cup {[type |-> "Point", coordinates |-> <<c>>] : c \in PointVertices}
    \cup {[type |-> "Polygon", coordinates |-> <<>>]}
    \cup {NullGeometry}

Features == {[geometry |-> g] : g \in Geometries}

\* src.crs: none declared, or a declared one
DeclaredCrs == {None, "EPSG:3857"}

SourceFiles == [crs : DeclaredCrs, features : SeqsUpTo(Features, MaxFeatures)]

\* the point collected for a source coordinate (z forced to 0)
CollectedPoint(coord) == [x |-> coord[1], y |-> coord[2], z |-> 0]

\* transformer.transform(x, y) of pyproj for the given source CRS; the library is
\* external, the model keeps a different map per source CRS
Transform(source_crs, x, y) ==
    CASE source_crs = "EPSG:4326" -> <<(x - 33) * 2, (y - 2) * 2>>
      [] source_crs = "EPSG:32636" -> <<x - 500, y>>
      [] OTHER -> <<x + 1, y - 1>>

\* ReprojectedPoint with z set from the transformed y instead of 0.0
ReprojectedPointZFromY(source_crs, p) ==
    LET xy == Transform(source_crs, p.x, p.y)
    IN  [x |-> xy[1], y |-> xy[2], z |-> xy[2], vertex_index |-> 0]

\* the point appended to reproj_segment for p
ReprojectedPoint(source_crs, p) ==
    LET xy == Transform(source_crs, p.x, p.y)
    IN  [x |-> xy[1], y |-> xy[2], z |-> 0, vertex_index |-> 0]

\* reproj_segment of one segment of temp_segments
ReprojectSegment(source_crs, segment) ==
    [k \in DOMAIN segment |-> ReprojectedPoint(source_crs, segment[k])]

\* max_abs over all_lons and all_lats (both non-empty)
MaxAbs(lons, lats) ==
    Max(<<Max(<<Abs(Min(lons)), Abs(Max(lons))>>), Max(<<Abs(Min(lats)), Abs(Max(lats))>>)>>)

\* AssumedCrs with the threshold compared by <=
AssumedCrsInclusive(lons, lats) ==
    IF MaxAbs(lons, lats) <= 180 THEN "EPSG:4326" ELSE "EPSG:32636"

\* the CRS assumed when the source declares none
AssumedCrs(lons, lats) ==
    IF MaxAbs(lons, lats) < 180 THEN "EPSG:4326" ELSE "EPSG:32636"

(***************************************************************************)
(* State                                                                   *)
(***************************************************************************)
VARIABLES
    \* a direct call of calculate_geometry: its argument and its result
    points, road_points, gpc,
    \* read_points_from_shapefile: the file read, the position in the function,
    \* the loop indices, the locals and what the call did (returned or raised)
    src, rpc, fi, ri, temp_segments, all_lons, all_lats, source_crs,
    segments, target_wkt, target_epsg, error_message, ret,
    \* the driver: which one, its position, its locals, the calls it made in
    \* order and how the run ended
    driver, dpc, dsegments, crs_wkt, err, bounds, calls, outcome,
    \* write_opendrive_file: its position, xml_str and the destination file
    \* (its content before the run and now)
    \* and the values calculate_geometry returned to it, one per road
    wpc, xml_str, dest, geoms

gvars == <<points, road_points, gpc>>

rvars == <<src, rpc, fi, ri, temp_segments, all_lons, all_lats, source_crs,
           segments, target_wkt, target_epsg, error_message, ret>>

dvars == <<driver, dpc, dsegments, crs_wkt, err, bounds, calls, outcome>>

wvars == <<wpc, xml_str, dest, geoms>>

vars == <<gvars, rvars, dvars, wvars>>

\* the destination path: no file, or a file left by an earlier run
Absent == [exists |-> FALSE, data |-> <<>>]

OldFile == [exists |-> TRUE, data |-> <<"old output">>]

\* a file holding the parts of the text written so far
FileWith(data) == [exists |-> TRUE, data |-> data]

\* the serialised text of a document, as its parts in order
Serialize(document) ==
    <<"<?xml version='1.0' encoding='UTF-8'?>", document.header, document.roads>>

NoRet == [kind |-> "none"]

\* the locals of read_points_from_shapefile at its first statement
ReaderLocals ==
    /\ segments = <<>>
    /\ error_message = None
    /\ all_lons = <<>>
    /\ all_lats = <<>>
    /\ temp_segments = <<>>
    /\ source_crs = None
    /\ target_wkt = Unbound
    /\ target_epsg = Unbound
    /\ fi = 1
    /\ ri = 1
    /\ ret = NoRet

GeomIdle == points = <<>> /\ road_points = <<>> /\ gpc = "idle"

ReaderIdle == src = [crs |-> None, features |-> <<>>] /\ rpc = "idle" /\ ReaderLocals

WriterIdle == wpc = "idle" /\ xml_str = <<>> /\ geoms = <<>>

DriverLocals ==
    /\ dsegments = <<>>
    /\ crs_wkt = None
    /\ err = None
    /\ bounds = [north |-> 0, south |-> 0, east |-> 0, west |-> 0]
    /\ calls = <<>>
    /\ outcome = None

(***************************************************************************)
(* read_points_from_shapefile, statement by statement                      *)
(***************************************************************************)
\* the except clause: the exception becomes error_message and control goes to
\* the statements after the try
Caught(msg) ==
    /\ error_message' = "Error processing file: " \o msg
    /\ rpc' = "return"

\* the coordinates a feature's geometry adds to all_lons / all_lats
FeatureCoords(geom) ==
    IF geom.type = "LineString" \/ geom.type = "Point" THEN geom.coordinates ELSE <<>>

\* FeatureSegments without the Point branch
FeatureSegmentsLinesOnly(geom) ==
    LET segment == [k \in DOMAIN geom.coordinates |-> CollectedPoint(geom.coordinates[k])]
    IN  IF geom.type = "LineString" THEN (IF segment # <<>> THEN <<segment>> ELSE <<>>)
        ELSE <<>>

\* the segments a feature's geometry adds to temp_segments
FeatureSegments(geom) ==
    LET segment == [k \in DOMAIN geom.coordinates |-> CollectedPoint(geom.coordinates[k])]
    IN  IF geom.type = "LineString" THEN (IF segment # <<>> THEN <<segment>> ELSE <<>>)
        ELSE IF geom.type = "Point" THEN <<segment>>
        ELSE <<>>

\* source_crs when the transformer is created
SelectCrs(declared, lons, lats) ==
    IF declared = None THEN AssumedCrs(lons, lats) ELSE declared

\* fiona.open and the CRS of the source; either may raise
ReadOpen ==
    /\ rpc = "open"
    /\ \E opened \in BOOLEAN, crs_ok \in BOOLEAN :
          IF ~opened
          THEN Caught("cannot open source") /\ UNCHANGED source_crs
          ELSE IF src.crs # None
               THEN IF crs_ok
                    THEN source_crs' = src.crs /\ rpc' = "features"
                         /\ UNCHANGED error_message
                    ELSE Caught("invalid CRS") /\ UNCHANGED source_crs
               ELSE rpc' = "features" /\ UNCHANGED <<source_crs, error_message>>
    /\ UNCHANGED <<src, fi, ri, temp_segments, all_lons, all_lats, segments,
                   target_wkt, target_epsg, ret>>
    /\ UNCHANGED <<gvars, dvars, wvars>>

\* one iteration of "for feature in src"
ReadFeature ==
    /\ rpc = "features"
    /\ fi <= Len(src.features)
    /\ LET geom == src.features[fi].geometry
           coords == FeatureCoords(geom)
       IN  IF geom.type = None
           THEN /\ Caught("'NoneType' object is not subscriptable")
                /\ UNCHANGED <<fi, all_lons, all_lats, temp_segments>>
           ELSE /\ all_lons' = all_lons \o [k \in DOMAIN coords |-> coords[k][1]]
                /\ all_lats' = all_lats \o [k \in DOMAIN coords |-> coords[k][2]]
                /\ temp_segments' = temp_segments \o FeatureSegments(geom)
                /\ fi' = fi + 1
                /\ UNCHANGED <<rpc, error_message>>
    /\ UNCHANGED <<src, ri, source_crs, segments, target_wkt, target_epsg, ret>>
    /\ UNCHANGED <<gvars, dvars, wvars>>

\* after the loop: the empty check, the CRS detection and Transformer.from_crs
ReadCheck ==
    /\ rpc = "features"
    /\ fi > Len(src.features)
    /\ IF all_lons = <<>>
       THEN Caught("No coordinates found in file.") /\ UNCHANGED source_crs
       ELSE /\ source_crs' = SelectCrs(source_crs, all_lons, all_lats)
            /\ \E created \in BOOLEAN :
                  IF created
                  THEN rpc' = "reproject" /\ UNCHANGED error_message
                  ELSE Caught("cannot create transformer")
    /\ UNCHANGED <<src, fi, ri, temp_segments, all_lons, all_lats, segments,
                   target_wkt, target_epsg, ret>>
    /\ UNCHANGED <<gvars, dvars, wvars>>

\* one iteration of "for segment in temp_segments"; the transform may raise
ReadReproject ==
    /\ rpc = "reproject"
    /\ ri <= Len(temp_segments)
    /\ \E transformed \in BOOLEAN :
          IF transformed
          THEN /\ segments' = Append(segments, ReprojectSegment(source_crs, temp_segments[ri]))
               /\ ri' = ri + 1
               /\ UNCHANGED <<rpc, error_message>>
          ELSE Caught("transform failed") /\ UNCHANGED <<segments, ri>>
    /\ UNCHANGED <<src, fi, temp_segments, all_lons, all_lats, source_crs,
                   target_wkt, target_epsg, ret>>
    /\ UNCHANGED <<gvars, dvars, wvars>>

\* the two assignments that end the with block
ReadLoopEnd ==
    /\ rpc = "reproject"
    /\ ri > Len(temp_segments)
    /\ target_wkt' = TargetWkt
    /\ target_epsg' = None
    /\ rpc' = "return"
    /\ UNCHANGED <<src, fi, ri, temp_segments, all_lons, all_lats, source_crs,
                   segments, error_message, ret>>
    /\ UNCHANGED <<gvars, dvars, wvars>>

\* what the return statement does: it reads target_wkt and target_epsg, which are
\* assigned only at the end of the with block
ReturnValue(segs, wkt, epsg, msg) ==
    IF wkt = Unbound
    THEN [kind |-> "raise", exc |-> "UnboundLocalError"]
    ELSE [kind |-> "return", segments |-> segs, target_wkt |-> wkt,
          target_epsg |-> epsg, error_message |-> msg]

\* the statements after the try
ReadReturn ==
    /\ rpc = "return"
    /\ error_message' =
          IF segments = <<>>
          THEN (IF error_message # None THEN error_message ELSE "No valid geometry found.")
          ELSE error_message
    /\ ret' = ReturnValue(segments, target_wkt, target_epsg, error_message')
    /\ rpc' = "done"
    /\ UNCHANGED <<src, fi, ri, temp_segments, all_lons, all_lats, source_crs,
                   segments, target_wkt, target_epsg>>
    /\ UNCHANGED <<gvars, dvars, wvars>>

(***************************************************************************)
(* write_opendrive_file, statement by statement                            *)
(***************************************************************************)
\* everything up to lxml_tostring: the document is built and serialised in memory
WriterSerialize ==
    /\ wpc = "serialize"
    /\ geoms' = RoadGeometries(dsegments, 1)
    /\ xml_str' = Serialize(Document(dsegments, bounds, crs_wkt))
    /\ wpc' = "open"
    /\ UNCHANGED dest
    /\ UNCHANGED <<gvars, rvars, dvars>>

\* open(output_file, "w"): creates or truncates the destination, or raises
WriterOpen ==
    /\ wpc = "open"
    /\ \E opened \in BOOLEAN :
          IF opened
          THEN dest' = [dest EXCEPT !.now = FileWith(<<>>)] /\ wpc' = "write"
          ELSE wpc' = "raised" /\ UNCHANGED dest
    /\ UNCHANGED <<xml_str, geoms>>
    /\ UNCHANGED <<gvars, rvars, dvars>>

\* f.write(xml_str): some prefix of the text reaches the file now, the rest stays
\* in the buffer; the write may raise after that prefix
WriterWrite ==
    /\ wpc = "write"
    /\ \E flushed \in 0..Len(xml_str), written \in BOOLEAN :
          /\ dest' = [dest EXCEPT !.now = FileWith(SubSeq(xml_str, 1, flushed))]
          /\ wpc' = IF written THEN "close" ELSE "raised"
    /\ UNCHANGED <<xml_str, geoms>>
    /\ UNCHANGED <<gvars, rvars, dvars>>

\* the end of the with block: the buffer is flushed and the file closed, or the
\* flush raises and the file keeps what had reached it
WriterClose ==
    /\ wpc = "close"
    /\ \E closed \in BOOLEAN :
          IF closed
          THEN dest' = [dest EXCEPT !.now = FileWith(xml_str)] /\ wpc' = "returned"
          ELSE wpc' = "raised" /\ UNCHANGED dest
    /\ UNCHANGED <<xml_str, geoms>>
    /\ UNCHANGED <<gvars, rvars, dvars>>

(***************************************************************************)
(* The drivers: main (00.py), POST /convert and POST /upload_convert       *)
(***************************************************************************)
Drivers == {"main", "convert", "upload_convert"}

\* how resolving the input path can end: "ok", or the failure reported
ResolveResults(d) ==
    CASE d = "main" -> {"ok", "exit 1"}
      [] d = "convert" -> {"ok", "HTTP 400", "HTTP 404"}
      [] d = "upload_convert" -> {"ok", "HTTP 400"}

\* the run ends because the reader reported an error (sys.exit(1), HTTPException 500)
ErrOutcome(d) ==
    CASE d = "main" -> "exit 1"
      [] d = "caller" -> "returned"
      [] OTHER -> "HTTP 500"

\* the run ends by an exception nobody catches (traceback and exit status 1,
\* or the framework's 500 response)
UncaughtOutcome(d) ==
    CASE d = "main" -> "exit 1"
      [] d = "caller" -> "raised"
      [] OTHER -> "HTTP 500"

\* the run ends normally
SuccessOutcome(d) ==
    CASE d = "main" -> "exit 0"
      [] d = "caller" -> "returned"
      [] OTHER -> "HTTP 200"

\* the destination once the driver has ended: upload_convert writes into a
\* TemporaryDirectory, which is removed when its with block is left
DestAfter(d, file) == IF d = "upload_convert" THEN [file EXCEPT !.now = Absent] ELSE file

DriverResolve ==
    /\ dpc = "resolve"
    /\ \E r \in ResolveResults(driver) :
          IF r = "ok"
          THEN dpc' = "read" /\ UNCHANGED outcome
          ELSE dpc' = "done" /\ outcome' = r
    /\ UNCHANGED <<driver, dsegments, crs_wkt, err, bounds, calls>>
    /\ UNCHANGED <<gvars, rvars, wvars>>

DriverCallRead ==
    /\ dpc = "read"
    /\ calls' = Append(calls, "read_points_from_shapefile")
    /\ rpc' = "open"
    /\ dpc' = "reading"
    /\ UNCHANGED <<driver, dsegments, crs_wkt, err, bounds, outcome>>
    /\ UNCHANGED <<src, fi, ri, temp_segments, all_lons, all_lats, source_crs,
                   segments, target_wkt, target_epsg, error_message, ret>>
    /\ UNCHANGED <<gvars, wvars>>

\* DriverAfterRead with the call wrapped in a try that swallows the exception
\* and goes on with no segments
DriverAfterReadSwallow ==
    /\ dpc = "reading"
    /\ rpc = "done"
    /\ IF ret.kind = "raise"
       THEN /\ dpc' = "bbox"
            /\ UNCHANGED <<dsegments, crs_wkt, err, outcome, dest>>
       ELSE /\ dsegments' = ret.segments
            /\ crs_wkt' = ret.target_wkt
            /\ err' = ret.error_message
            /\ IF err' # None /\ err' # ""
               THEN /\ outcome' = ErrOutcome(driver)
                    /\ dpc' = "done"
                    /\ dest' = DestAfter(driver, dest)
               ELSE dpc' = "bbox" /\ UNCHANGED <<outcome, dest>>
    /\ UNCHANGED <<driver, bounds, calls, wpc, xml_str, geoms>>
    /\ UNCHANGED <<gvars, rvars>>

\* the call has ended: the tuple is unpacked and err tested, or the exception
\* the call raised ends the run
DriverAfterRead ==
    /\ dpc = "reading"
    /\ rpc = "done"
    /\ IF ret.kind = "raise"
       THEN /\ outcome' = UncaughtOutcome(driver)
            /\ dpc' = "done"
            /\ dest' = DestAfter(driver, dest)
            /\ UNCHANGED <<dsegments, crs_wkt, err>>
       ELSE /\ dsegments' = ret.segments
            /\ crs_wkt' = ret.target_wkt
            /\ err' = ret.error_message
            /\ IF err' # None /\ err' # ""
               THEN /\ outcome' = ErrOutcome(driver)
                    /\ dpc' = "done"
                    /\ dest' = DestAfter(driver, dest)
               ELSE dpc' = "bbox" /\ UNCHANGED <<outcome, dest>>
    /\ UNCHANGED <<driver, bounds, calls, wpc, xml_str, geoms>>
    /\ UNCHANGED <<gvars, rvars>>

DriverBoundingBox ==
    /\ dpc = "bbox"
    /\ bounds' = calculate_bounding_box(dsegments)
    /\ calls' = Append(calls, "calculate_bounding_box")
    /\ dpc' = "write"
    /\ UNCHANGED <<driver, dsegments, crs_wkt, err, outcome>>
    /\ UNCHANGED <<gvars, rvars, wvars>>

DriverCallWrite ==
    /\ dpc = "write"
    /\ calls' = Append(calls, "write_opendrive_file")
    /\ wpc' = "serialize"
    /\ dpc' = "writing"
    /\ UNCHANGED <<driver, dsegments, crs_wkt, err, bounds, outcome>>
    /\ UNCHANGED <<xml_str, dest, geoms>>
    /\ UNCHANGED <<gvars, rvars>>

\* write_opendrive_file has returned or raised
DriverFinish ==
    /\ dpc = "writing"
    /\ wpc \in {"returned", "raised"}
    /\ outcome' = IF wpc = "returned" THEN SuccessOutcome(driver) ELSE UncaughtOutcome(driver)
    /\ dpc' = "done"
    /\ dest' = DestAfter(driver, dest)
    /\ UNCHANGED <<driver, dsegments, crs_wkt, err, bounds, calls, wpc, xml_str, geoms>>
    /\ UNCHANGED <<gvars, rvars>>

(***************************************************************************)
(* A direct call of calculate_geometry                                     *)
(***************************************************************************)
CallCalculateGeometry ==
    /\ gpc = "call"
    /\ road_points' = calculate_geometry(points)
    /\ gpc' = "done"
    /\ UNCHANGED points
    /\ UNCHANGED <<rvars, dvars, wvars>>

(***************************************************************************)
(* Specifications                                                          *)
(***************************************************************************)
\* the points calculate_geometry is called with
GridPoints == [x : 0..MaxCoord, y : 0..MaxCoord, z : {0}]

\* the points of the segments the writer and the bounding box are called with
PointA == [x |-> -2, y |-> -1, z |-> 0, vertex_index |-> 0]

PointB == [x |-> 3, y |-> 4, z |-> 0, vertex_index |-> 0]

PointC == [x |-> 3, y |-> -6, z |-> 0, vertex_index |-> 0]

\* ... and the segments: empty, one point, two points in both directions, a
\* repeated point and three points
DocSegments ==
    {<<>>, <<PointA>>, <<PointA, PointB>>, <<PointB, PointA>>, <<PointC, PointC>>,
     <<PointB, PointC, PointA>>}

\* the features of the files the drivers are run on
DriverFeatures ==
    {[geometry |-> [type |-> "LineString", coordinates |-> <<VertexSmall, VertexEdge>>]],
     [geometry |-> [type |-> "LineString", coordinates |-> <<VertexSmall, VertexSmall, VertexLarge>>]],
     [geometry |-> [type |-> "Point", coordinates |-> <<VertexLarge>>]],
     [geometry |-> [type |-> "Polygon", coordinates |-> <<>>]]}

DriverSourceFiles == [crs : DeclaredCrs, features : SeqsUpTo(DriverFeatures, MaxFeatures)]

\* calculate_geometry called on any point list
InitGeom ==
    /\ points \in SeqsUpTo(GridPoints, MaxPoints)
    /\ road_points = <<>>
    /\ gpc = "call"
    /\ ReaderIdle
    /\ driver = "caller" /\ dpc = "idle" /\ DriverLocals
    /\ WriterIdle
    /\ dest = [before |-> Absent, now |-> Absent]

NextGeom == CallCalculateGeometry

SpecGeom == InitGeom /\ [][NextGeom]_vars

\* read_points_from_shapefile called on any source file
InitRead ==
    /\ GeomIdle
    /\ src \in SourceFiles
    /\ rpc = "open"
    /\ ReaderLocals
    /\ driver = "caller" /\ dpc = "idle" /\ DriverLocals
    /\ WriterIdle
    /\ dest = [before |-> Absent, now |-> Absent]

NextRead ==
    \/ ReadOpen
    \/ ReadFeature
    \/ ReadCheck
    \/ ReadReproject
    \/ ReadLoopEnd
    \/ ReadReturn

SpecRead == InitRead /\ [][NextRead]_vars

\* calculate_bounding_box and write_opendrive_file called on any segment list
InitDoc ==
    /\ GeomIdle
    /\ ReaderIdle
    /\ driver = "caller"
    /\ dpc = "bbox"
    /\ dsegments \in SeqsUpTo(DocSegments, MaxSegments)
    /\ crs_wkt = TargetWkt
    /\ err = None
    /\ bounds = [north |-> 0, south |-> 0, east |-> 0, west |-> 0]
    /\ calls = <<>>
    /\ outcome = None
    /\ WriterIdle
    /\ \E before \in {Absent, OldFile} : dest = [before |-> before, now |-> before]

NextDoc ==
    \/ DriverBoundingBox
    \/ DriverCallWrite
    \/ WriterSerialize
    \/ WriterOpen
    \/ WriterWrite
    \/ WriterClose
    \/ DriverFinish

SpecDoc == InitDoc /\ [][NextDoc]_vars

\* a run of one of the three drivers
Init ==
    /\ GeomIdle
    /\ src \in DriverSourceFiles
    /\ rpc = "idle"
    /\ ReaderLocals
    /\ driver \in Drivers
    /\ dpc = "resolve"
    /\ DriverLocals
    /\ WriterIdle
    /\ \E before \in {Absent, OldFile} :
          /\ driver = "upload_convert" => before = Absent
          /\ dest = [before |-> before, now |-> before]

Next ==
    \/ DriverResolve
    \/ DriverCallRead
    \/ DriverAfterRead
    \/ DriverBoundingBox
    \/ DriverCallWrite
    \/ DriverFinish
    \/ ReadOpen
    \/ ReadFeature
    \/ ReadCheck
    \/ ReadReproject
    \/ ReadLoopEnd
    \/ ReadReturn
    \/ WriterSerialize
    \/ WriterOpen
    \/ WriterWrite
    \/ WriterClose

Spec == Init /\ [][Next]_vars

(***************************************************************************)
(* Properties                                                              *)
(***************************************************************************)
\* the squared distance between two points
SquaredDistance(p, q) == (q.x - p.x) * (q.x - p.x) + (q.y - p.y) * (q.y - p.y)

\* len is the distance between p and q (on the integer grid of the model)
IsDistance(len, p, q) ==
    len >= 0 /\ len * len <= SquaredDistance(p, q) /\ SquaredDistance(p, q) < (len + 1) * (len + 1)

\* C4: calculate_geometry on n points returns the empty list when n < 2; when
\* n >= 2 it returns n records in point order, record i (i < n) at point i with the
\* distance from point i to point i + 1 as length, and the last record at the last
\* point with length 0 and the heading of record n - 1.
C4_GeometryRecords ==
    gpc = "done" =>
        LET n == Len(points)
        IN  /\ n < 2 => road_points = <<>>
            /\ n >= 2 =>
                 /\ Len(road_points) = n
                 /\ \A i \in 1..(n - 1) :
                       /\ road_points[i].x = points[i].x
                       /\ road_points[i].y = points[i].y
                       /\ IsDistance(road_points[i].length, points[i], points[i + 1])
                 /\ road_points[n].x = points[n].x
                 /\ road_points[n].y = points[n].y
                 /\ road_points[n].length = 0
                 /\ road_points[n].hdg = road_points[n - 1].hdg

\* three points, the last pair heading somewhere else than 0 degrees
C4_Witness ==
    /\ gpc = "done"
    /\ Len(points) = 3
    /\ Len(road_points) = 3
    /\ road_points[2].hdg # 0
    /\ road_points[2].hdg # road_points[1].hdg
    /\ road_points[3].hdg = road_points[2].hdg
    /\ road_points[2].length > 0

\* the polyline length of a segment, summed from its last pair backwards
RECURSIVE PolylineLength(_)
PolylineLength(segment) ==
    IF Len(segment) < 2 THEN 0
    ELSE LET n == Len(segment)
             len == CHOOSE l \in 0..SquaredDistance(segment[n - 1], segment[n]) :
                        IsDistance(l, segment[n - 1], segment[n])
         IN  PolylineLength(SubSeq(segment, 1, n - 1)) + len

\* the positions, among all segments, of those that have at least two points
QualifyingPositions(all) == {k \in DOMAIN all : Len(all[k]) >= 2}

\* the rank of position k among the qualifying positions
Rank(all, k) == Cardinality({m \in QualifyingPositions(all) : m <= k})

\* the writer has built the document
Built == wpc \in {"open", "write", "close", "returned", "raised"}

C3_RoadIds ==
    Built =>
        LET roads == xml_str[3]
        IN  /\ Len(roads) = Cardinality(QualifyingPositions(dsegments))
            /\ \A k \in QualifyingPositions(dsegments) :
                  LET road == roads[Rank(dsegments, k)]
                  IN  /\ road.id = ToString(k)
                      /\ road.name = "Road_" \o ToString(k)
                      /\ Len(road.planView) = Len(dsegments[k])
                      /\ \A i \in DOMAIN dsegments[k] :
                            /\ road.planView[i].x = Fmt16(dsegments[k][i].x)
                            /\ road.planView[i].y = Fmt16(dsegments[k][i].y)

\* three segments, the second of one point: the roads are Road_1 and Road_3
C3_Witness ==
    /\ wpc = "returned"
    /\ Len(dsegments) = 3
    /\ Len(dsegments[1]) >= 2
    /\ Len(dsegments[2]) = 1
    /\ Len(dsegments[3]) >= 2
    /\ Len(xml_str[3]) = 2
    /\ xml_str[3][1].name = "Road_1"
    /\ xml_str[3][2].name = "Road_3"
    /\ dest.now = FileWith(xml_str)

\* the pairs <<segment, point>> of all points of all segments
PointPositions(all) == UNION {{<<k, i>> : i \in DOMAIN all[k]} : k \in DOMAIN all}

\* C9: calculate_bounding_box returns north = max y, south = min y, east = max x,
\* west = min x over all points of all segments, and all zero when there is no
\* point at all.
C9_BoundingBox ==
    dpc \in {"write", "writing", "done"} /\ "calculate_bounding_box" \in Range(calls) =>
        LET pos == PointPositions(dsegments)
        IN  IF pos = {}
            THEN bounds = [north |-> 0, south |-> 0, east |-> 0, west |-> 0]
            ELSE /\ \A q \in pos :
                       /\ bounds.south <= dsegments[q[1]][q[2]].y
                       /\ dsegments[q[1]][q[2]].y <= bounds.north
                       /\ bounds.west <= dsegments[q[1]][q[2]].x
                       /\ dsegments[q[1]][q[2]].x <= bounds.east
                 /\ \E q \in pos : dsegments[q[1]][q[2]].y = bounds.north
                 /\ \E q \in pos : dsegments[q[1]][q[2]].y = bounds.south
                 /\ \E q \in pos : dsegments[q[1]][q[2]].x = bounds.east
                 /\ \E q \in pos : dsegments[q[1]][q[2]].x = bounds.west

\* the box of points that all lie below and left of the origin
C9_Witness ==
    /\ dpc = "write"
    /\ calls = <<"calculate_bounding_box">>
    /\ Len(dsegments) = 2
    /\ dsegments[1] = <<>>
    /\ bounds = [north |-> -1, south |-> -1, east |-> -2, west |-> -2]

\* C10: the destination holds what it held before the call, or the complete new
\* document, at every moment during and after write_opendrive_file.
C10_AtomicWrite ==
    \/ dest.now = dest.before
    \/ Built /\ dest.now = FileWith(xml_str)

\* the call of read_points_from_shapefile has ended
ReadEnded == rpc = "done"

\* the read failed: an exception was caught, or nothing was collected
ReadFailed == ReadEnded /\ (ret.kind = "raise" \/ error_message # None)

\* C1: read_points_from_shapefile always returns to its caller, and when a step
\* raised or no coordinate was collected it returns a non-empty error message
\* and an empty segments list.
C1_ReaderReturns ==
    ReadEnded =>
        /\ ret.kind = "return"
        /\ error_message # None =>
              /\ ret.error_message # None
              /\ ret.error_message # ""
              /\ ret.segments = <<>>

\* the positions of the features that have a geometry of a type in types and,
\* unless empty lines count, at least one coordinate
Supported(features, upto, emptyLines) ==
    {k \in 1..upto :
        \/ features[k].geometry.type = "Point"
        \/ /\ features[k].geometry.type = "LineString"
           /\ emptyLines \/ features[k].geometry.coordinates # <<>>}

\* segs holds one segment per position in sup, in feature order, with one point
\* per coordinate in order; crs = None compares the coordinates as collected
SegmentsOf(segs, features, sup, crs) ==
    /\ Len(segs) = Cardinality(sup)
    /\ \A k \in sup :
          LET j == Cardinality({m \in sup : m <= k})
              coords == features[k].geometry.coordinates
          IN  /\ Len(segs[j]) = Len(coords)
              /\ \A v \in DOMAIN coords :
                    LET xy == IF crs = None THEN <<coords[v][1], coords[v][2]>>
                              ELSE Transform(crs, coords[v][1], coords[v][2])
                    IN  segs[j][v].x = xy[1] /\ segs[j][v].y = xy[2]

\* C6 as stated: the returned segments are the LineString and Point features in
\* feature order, every LineString giving one segment with one point per vertex.
C6_SegmentsAsStated ==
    ReadEnded /\ ret.kind = "return" =>
        SegmentsOf(ret.segments, src.features,
                   Supported(src.features, Len(src.features), TRUE), source_crs)

\* C6 (amended): while the features are read, and in what is returned, the
\* segments are the Point features and the LineString features of at least one
\* vertex, in feature order, one point per vertex in vertex order; a feature of
\* another geometry type, or a LineString without vertices, adds no segment and
\* does not stop the read.
C6_Segments ==
    /\ rpc = "features" =>
          /\ error_message = None
          /\ SegmentsOf(temp_segments, src.features,
                        Supported(src.features, fi - 1, FALSE), None)
    /\ ReadEnded /\ ret.kind = "return" =>
          SegmentsOf(ret.segments, src.features,
                     Supported(src.features, Len(src.features), FALSE), source_crs)

\* an unsupported feature followed by a LineString of two vertices, returned
C6_Witness ==
    /\ ReadEnded
    /\ ret.kind = "return"
    /\ Len(src.features) = 2
    /\ src.features[1].geometry.type = "Polygon"
    /\ src.features[2].geometry.type = "LineString"
    /\ Len(ret.segments) = 1
    /\ Len(ret.segments[1]) = 2
    /\ ret.segments[1][1] # ret.segments[1][2]

\* the absolute values of all x and y of the Point and LineString features
Magnitudes(features) ==
    UNION {{Abs(features[k].geometry.coordinates[v][c]) :
               v \in DOMAIN features[k].geometry.coordinates, c \in 1..2} :
           k \in Supported(features, Len(features), TRUE)}

\* C7: a declared source CRS is always the one used; without one, WGS84 is
\* assumed exactly when every collected x and y is below 180 in absolute value,
\* and UTM zone 36N otherwise.
C7_SourceCrs ==
    rpc = "reproject" \/ segments # <<>> =>
        /\ src.crs # None => source_crs = src.crs
        /\ src.crs = None =>
              /\ source_crs \in {"EPSG:4326", "EPSG:32636"}
              /\ source_crs = "EPSG:4326" <=> \A m \in Magnitudes(src.features) : m < 180
        /\ \A j \in DOMAIN segments :
              segments[j] = [v \in DOMAIN temp_segments[j] |->
                                LET xy == Transform(source_crs, temp_segments[j][v].x,
                                                    temp_segments[j][v].y)
                                IN  [x |-> xy[1], y |-> xy[2], z |-> 0, vertex_index |-> 0]]

\* no CRS declared, the largest magnitude exactly 180: UTM zone 36N is used
C7_Witness ==
    /\ ReadEnded
    /\ ret.kind = "return"
    /\ src.crs = None
    /\ 180 \in Magnitudes(src.features)
    /\ \A m \in Magnitudes(src.features) : m <= 180
    /\ source_crs = "EPSG:32636"
    /\ ret.segments[1][1].x = src.features[1].geometry.coordinates[1][1] - 500

\* the three steps of a driver, in order
Pipeline == <<"read_points_from_shapefile", "calculate_bounding_box", "write_opendrive_file">>

\* C2: a driver calls read_points_from_shapefile, calculate_bounding_box and
\* write_opendrive_file in this order; in a run whose read failed,
\* write_opendrive_file is never invoked, the destination is left as it was and
\* the run ends in a failure the caller sees.
C2_DriverOrder ==
    /\ Len(calls) <= 3
    /\ calls = SubSeq(Pipeline, 1, Len(calls))
    /\ wpc # "idle" => calls = Pipeline
    /\ dpc \in {"bbox", "write", "writing"} => ReadEnded /\ ret.kind = "return"
    /\ ReadFailed =>
          /\ wpc = "idle"
          /\ "write_opendrive_file" \notin Range(calls)
          /\ dest.now = dest.before
          /\ dpc \in {"reading", "done"}
          /\ dpc = "done" => outcome \in {"exit 1", "HTTP 500"}

\* an upload without any coordinate: the run has ended in an HTTP error
C2_Witness ==
    /\ driver = "upload_convert"
    /\ ReadFailed
    /\ all_lons = <<>>
    /\ error_message = "Error processing file: No coordinates found in file."
    /\ dpc = "done"
    /\ outcome = "HTTP 500"
    /\ calls = <<"read_points_from_shapefile">>

\* C8: every point of every segment the reader builds and returns has z = 0,
\* every record calculate_geometry returns has z = 0, and every elevation entry
\* written has a = b = c = d = 0.0.
C8_ZeroElevation ==
    /\ \A j \in DOMAIN segments : \A v \in DOMAIN segments[j] : segments[j][v].z = 0
    /\ ReadEnded /\ ret.kind = "return" =>
          \A j \in DOMAIN ret.segments : \A v \in DOMAIN ret.segments[j] :
              ret.segments[j][v].z = 0
    /\ \A k \in DOMAIN geoms : \A i \in DOMAIN geoms[k] : geoms[k][i].z = 0
    /\ Built =>
          \A k \in DOMAIN xml_str[3] : \A i \in DOMAIN xml_str[3][k].elevationProfile :
              LET e == xml_str[3][k].elevationProfile[i]
              IN  e.a = "0.0" /\ e.b = "0.0" /\ e.c = "0.0" /\ e.d = "0.0"

\* a source whose vertices carry z = 5 and z = 7 has been converted and written
C8_Witness ==
    /\ wpc = "returned"
    /\ Len(src.features) >= 1
    /\ src.features[1].geometry.type = "LineString"
    /\ src.features[1].geometry.coordinates[1][3] = 5
    /\ src.features[1].geometry.coordinates[2][3] = 7
    /\ Len(ret.segments[1]) = 2
    /\ Len(geoms) >= 1
    /\ Len(xml_str[3][1].elevationProfile) = 1
    /\ dest.now = FileWith(xml_str)

====
